---- MODULE Spec2Model ----
(***************************************************************************)
(* copic: the multi-monitor wallpaper compositor (src/copic.py) and its    *)
(* test client (src/client.py).                                            *)
(*                                                                         *)
(* The model covers the one-shot front end (main), the rotation daemon     *)
(* (background_loop / loop_iter), the command listener thread              *)
(* (command_listener), the queue between them, and the environment they    *)
(* read: the wall clock, the xrandr output, the image directory and the    *)
(* clients of the command socket.                                          *)
(*                                                                         *)
(* Times are seconds.  change_every is minutes, as in the code.            *)
(***************************************************************************)
EXTENDS Integers, Sequences, FiniteSets, TLC

VARIABLES
    bg,                \* args.bg: daemon mode (TRUE) or one-shot mode (FALSE)
    args_images,       \* args.images: the paths on the command line
    change_every,      \* args.interval, minutes
    now,               \* the wall clock, datetime.datetime.now(), seconds
    hw,                \* what `xrandr -q` reports at present
    folder,            \* the files of the image directory
    mpc,               \* main (one-shot): "start", "done", "failed", or "bg"
    dpc,               \* background_loop: "off", "iter", "get", "dead"
    iterations,        \* the calls of loop_iter background_loop has made
    display_data,      \* background_loop's display_data (the last-seen layout)
    last_change_time,  \* background_loop's last_change_time
    last_pass,         \* what the last loop_iter / main pass did (its log)
    wallfile,          \* contents of ~/.copic.png
    applied,           \* the wallpaper the desktop shows (set_wallpaper)
    command_queue,     \* the Queue between listener and daemon
    logged,            \* the commands background_loop logged, in order
    lpc,               \* command_listener: "off", "accept", "recv", "dead"
    conn,              \* the accepted client connection being read
    message_chunks,    \* command_listener's message_chunks
    timed_out,         \* whether the listener's last recv timed out
    backlog,           \* connections waiting in the listen queue
    sent               \* per accepted connection, what its client sent

vars == <<bg, args_images, change_every, now, hw, folder, mpc, dpc,
          iterations, display_data, last_change_time, last_pass, wallfile,
          applied, command_queue, logged, lpc, conn, message_chunks,
          timed_out, backlog, sent>>

daemonVars == <<dpc, iterations, display_data, last_change_time, last_pass,
                wallfile, applied, logged>>
listenerVars == <<lpc, conn, message_chunks, timed_out>>
envVars == <<now, hw, folder>>
argVars == <<bg, args_images, change_every>>

----------------------------------------------------------------------------
(* Bounds of the model *)

\* clients that connect to the command socket in one run
MaxClients == 3
\* the clock is followed for this many steps of TickSeconds
MaxTicks == 4

\* join_images is tried on lists of up to this many images
MaxImages == 3

\* the clock advances in steps of eight hours
TickSteps == {28800}
MaxTime == MaxTicks * 8 * 3600
\* the values of --interval (minutes) that are tried
Intervals == {480, 1440}

(* datetime.timedelta normalises to days, 0 <= seconds < 86400, microseconds *)
SecondsPerDay == 86400

----------------------------------------------------------------------------
(* Sequences *)

RECURSIVE Concat(_)
Concat(ss) == IF ss = <<>> THEN <<>> ELSE Head(ss) \o Concat(Tail(ss))

\* a / b < c / d for positive b, d: the order of the sort keys x / y
RatioLess(p, q) == p[1] * q[2] < q[1] * p[2]

\* Python's sorted(): a stable insertion sort; keys[i] is <<numerator,
\* denominator>> of the key of element i; the result lists the indices of
\* the elements in sorted order
RECURSIVE InsertByKey(_, _, _)
InsertByKey(i, order, keys) ==
    IF order = <<>> THEN <<i>>
    ELSE IF RatioLess(keys[i], keys[Head(order)]) THEN <<i>> \o order
    ELSE <<Head(order)>> \o InsertByKey(i, Tail(order), keys)

RECURSIVE SortedOrderUpTo(_, _)
SortedOrderUpTo(n, keys) ==
    IF n = 0 THEN <<>>
    ELSE InsertByKey(n, SortedOrderUpTo(n - 1, keys), keys)

SortedOrder(keys) == SortedOrderUpTo(Len(keys), keys)

----------------------------------------------------------------------------
(* The environment: displays and image files *)

Mon(x, y, xo, yo, prim) ==
    [x |-> x, y |-> y, x_offset |-> xo, y_offset |-> yo, primary |-> prim]

MonA == Mon(1920, 1080, 0, 0, TRUE)
MonARotated == Mon(1080, 1920, 0, 0, TRUE)
MonB == Mon(1080, 1080, 1920, 0, FALSE)

\* what `xrandr -q` can report: the viewport of its first line and the
\* connected monitors in the order of its lines
XrandrOutputs ==
    { [viewport |-> <<8, 8>>, monitors |-> <<>>],
      [viewport |-> <<1920, 1080>>, monitors |-> <<MonA>>],
      [viewport |-> <<1080, 1920>>, monitors |-> <<MonARotated>>],
      [viewport |-> <<3000, 1080>>, monitors |-> <<MonA, MonB>>] }

File(name, suffix, w, h) ==
    [name |-> name, suffix |-> suffix, width |-> w, height |-> h,
     is_dir |-> FALSE]

Landscape == File("land", ".png", 1600, 900)
Portrait == File("port", ".jpg", 900, 1600)
Notes == File("notes", ".txt", 0, 0)

\* the directory given on the command line, as iterdir() lists it
Folders ==
    { <<Notes>>, <<Landscape, Notes>>, <<Landscape, Notes, Portrait>> }

\* IMAGE_EXT: the extensions PIL registers (those the files here use)
IMAGE_EXT == {".png", ".jpg"}

\* args.images of a one-shot run: the directory, or explicit image files
TheDir ==
    [name |-> "walls", suffix |-> "", width |-> 0, height |-> 0,
     is_dir |-> TRUE]
ImageArgs ==
    { <<TheDir>>, <<Landscape>>, <<Landscape, Portrait>>,
      <<Portrait, Landscape, Landscape>> }

\* the steps of a pass that the environment can make fail
Faults ==
    {"none", "xrandr", "iterdir", "open", "join", "save", "gsettings"}

NoImage == [size |-> <<>>, pastes |-> <<>>]

----------------------------------------------------------------------------
(* get_display_data, join_images and the composition pass *)

\* get_display_data: the monitors sorted by x / y; raises when xrandr
\* prints nothing
get_display_data(out, fault) ==
    IF fault = "xrandr"
    THEN [raised |-> TRUE, viewport |-> <<>>, monitors |-> <<>>]
    ELSE LET mons == out.monitors
             keys == [i \in 1..Len(mons) |-> <<mons[i].x, mons[i].y>>]
             order == SortedOrder(keys)
         IN [raised |-> FALSE,
             viewport |-> out.viewport,
             monitors |-> [i \in 1..Len(mons) |-> mons[order[i]]]]

Min(a, b) == IF a <= b THEN a ELSE b

\* join_images: a canvas of the viewport's size; zip(monitors, images) pairs
\* them by position and stops at the shorter; fit() gives each image its
\* monitor's size
join_images(dd, images) ==
    [size |-> dd.viewport,
     pastes |-> [i \in 1..Min(Len(dd.monitors), Len(images)) |->
                    [image |-> images[i],
                     width |-> dd.monitors[i].x,
                     height |-> dd.monitors[i].y,
                     at |-> <<dd.monitors[i].x_offset,
                              dd.monitors[i].y_offset>>]]]

\* [p for p in ls if p.suffix in IMAGE_EXT]
RECURSIVE image_files(_)
image_files(ls) ==
    IF ls = <<>> THEN <<>>
    ELSE (IF Head(ls).suffix \in IMAGE_EXT THEN <<Head(ls)>> ELSE <<>>)
         \o image_files(Tail(ls))

\* the images left in the order of the draw
images_as_drawn(images) == images

\* sorted(images, key=lambda img: img.width / img.height)
sort_images(images) ==
    LET keys == [i \in 1..Len(images) |->
                    <<images[i].width, images[i].height>>]
        order == SortedOrder(keys)
    IN [i \in 1..Len(images) |-> images[order[i]]]

\* The draws random.choices can make: k indices into a population of n.
Draws(n, k) == IF n = 0 THEN { <<>> } ELSE [1..k -> 1..n]

\* a selection without replacement, as random.sample makes it: ValueError
\* when k exceeds the population
choices_without_replacement(population, k, draw) ==
    IF k > Len(population) \/ Cardinality({draw[i] : i \in 1..k}) < k
    THEN [raised |-> TRUE, paths |-> <<>>]
    ELSE [raised |-> FALSE, paths |-> [i \in 1..k |-> population[draw[i]]]]

\* random.choices(population, k=k): k draws with replacement; IndexError
\* when the population is empty and k > 0
choices(population, k, draw) ==
    IF k = 0 THEN [raised |-> FALSE, paths |-> <<>>]
    ELSE IF population = <<>> THEN [raised |-> TRUE, paths |-> <<>>]
    ELSE [raised |-> FALSE, paths |-> [i \in 1..k |-> population[draw[i]]]]

\* set_wallpaper called without regard to merged.save
reaches_sink_unsaved(failedAt) == failedAt \in {"none", "gsettings", "save"}

\* set_wallpaper is reached once the file is saved
reaches_sink(failedAt) == failedAt \in {"none", "gsettings"}

\* Image.open .. set_wallpaper: the tail of loop_iter and of main.  The
\* result: where the pass raised, the file and the desktop after it, and the
\* number of calls of set_wallpaper.
process_images(dd, paths, fault, file, desktop) ==
    LET failedAt ==
            IF fault = "open" /\ paths # <<>> THEN "open"
            ELSE IF fault \in {"join", "save", "gsettings"} THEN fault
            ELSE "none"
        merged == join_images(dd, sort_images(paths))
    IN [failedAt |-> failedAt,
        wallfile |-> IF failedAt \in {"open", "join", "save"} THEN file
                     ELSE merged,
        applied |-> IF failedAt = "none" THEN merged ELSE desktop,
        sink |-> IF reaches_sink(failedAt) THEN 1 ELSE 0]

----------------------------------------------------------------------------
(* loop_iter and main *)

\* timedelta.seconds / 60 >= change_every, for a timedelta of delta seconds:
\* .seconds is the seconds field of the normalised timedelta, without its days
timer_elapsed(delta, every) == (delta % SecondsPerDay) >= 60 * every

\* a change test that looks at the monitors themselves, not their number
trigger_on_geometry(dd, prev, delta, every) ==
    IF dd.monitors # prev.monitors THEN "config"
    ELSE IF timer_elapsed(delta, every) THEN "timer"
    ELSE "none"

\* the if / elif / else of loop_iter that sets do_change: "config" and
\* "timer" are its two do_change = True branches, "none" is do_change = False
trigger(dd, prev, delta, every) ==
    IF Len(dd.monitors) # Len(prev.monitors) THEN "config"
    ELSE IF timer_elapsed(delta, every) THEN "timer"
    ELSE "none"

\* a restart of the timer on every pass that found no display change
restart_unless_config(trig, clock, last) ==
    IF trig # "config" THEN clock ELSE last

\* last_change_time = datetime.datetime.now(), in the timer branch only
restart_timer(trig, clock, last) == IF trig = "timer" THEN clock ELSE last

\* what a pass did; paths are the paths it selected, if it came to that
Outcome(failedAt, trig, dd, last, file, desktop, sink, paths) ==
    [failedAt |-> failedAt, trigger |-> trig, display_data |-> dd,
     last_change_time |-> last, wallfile |-> file, applied |-> desktop,
     sink |-> sink, paths |-> paths]

\* loop_iter(path, prev_display_data, change_every, last_change_time), with
\* what it reads from the environment: the directory listing ls, the clock,
\* the xrandr output, the fault the environment injects and the draw of
\* random.choices; file and desktop are ~/.copic.png and the wallpaper shown
\* before the call.  failedAt = "none": it returned display_data and
\* last_change_time; otherwise it raised there.
loop_iter(ls, prev, every, last, clock, out, fault, draw, file, desktop) ==
    LET got == get_display_data(out, fault)
        dd == [viewport |-> got.viewport, monitors |-> got.monitors]
        n_monitors == Len(dd.monitors)
        trig == trigger(dd, prev, clock - last, every)
        newlast == restart_timer(trig, clock, last)
        drawn == choices(image_files(ls), n_monitors, draw)
        done == process_images(dd, drawn.paths, fault, file, desktop)
    IN IF got.raised
       THEN Outcome("xrandr", "none", prev, last, file, desktop, 0, <<>>)
       ELSE IF trig = "none"
       THEN Outcome("none", trig, dd, newlast, file, desktop, 0, <<>>)
       ELSE IF fault = "iterdir"
       THEN Outcome("iterdir", trig, dd, newlast, file, desktop, 0, <<>>)
       ELSE IF drawn.raised
       THEN Outcome("choices", trig, dd, newlast, file, desktop, 0, <<>>)
       ELSE Outcome(done.failedAt, trig, dd, newlast, done.wallfile,
                    done.applied, done.sink, drawn.paths)

\* the one-shot branch of main.  sys.exit is called without `import sys`, so
\* the count check ends in a NameError.
main_pass(images, ls, out, fault, draw, file, desktop) ==
    LET got == get_display_data(out, fault)
        dd == [viewport |-> got.viewport, monitors |-> got.monitors]
        n_paths == Len(images)
        n_monitors == Len(dd.monitors)
        first_path == images[1]
        drawn == choices(image_files(ls), n_monitors, draw)
        from_dir == process_images(dd, drawn.paths, fault, file, desktop)
        from_args == process_images(dd, images, fault, file, desktop)
    IN IF got.raised
       THEN Outcome("xrandr", "none", dd, 0, file, desktop, 0, <<>>)
       ELSE IF n_paths = 1 /\ first_path.is_dir
       THEN IF fault = "iterdir"
            THEN Outcome("iterdir", "main", dd, 0, file, desktop, 0, <<>>)
            ELSE IF drawn.raised
            THEN Outcome("choices", "main", dd, 0, file, desktop, 0, <<>>)
            ELSE Outcome(from_dir.failedAt, "main", dd, 0, from_dir.wallfile,
                         from_dir.applied, from_dir.sink, drawn.paths)
       ELSE IF n_paths # n_monitors
       THEN Outcome("NameError", "main", dd, 0, file, desktop, 0, <<>>)
       ELSE Outcome(from_args.failedAt, "main", dd, 0, from_args.wallfile,
                    from_args.applied, from_args.sink, images)

\* the log of a pass: who ran it, what it did, the paths it selected, and
\* whether it found the monitors changed in geometry but not in number
PassLog(by, r, prev) ==
    [by |-> by, trigger |-> r.trigger, failedAt |-> r.failedAt,
     sink |-> r.sink, paths |-> r.paths,
     resized |-> /\ r.failedAt # "xrandr"
                 /\ Len(r.display_data.monitors) = Len(prev.monitors)
                 /\ r.display_data.monitors # prev.monitors]

\* a last-seen layout that already has a monitor
OneMonitorLayout == [viewport |-> <<1920, 1080>>, monitors |-> <<MonA>>]

NoLayout == [viewport |-> <<>>, monitors |-> <<>>]
NoPass ==
    [by |-> "nobody", trigger |-> "none", failedAt |-> "none", sink |-> 0,
     paths |-> <<>>, resized |-> FALSE]

----------------------------------------------------------------------------
(* UTF-8, as str.encode and bytes.decode compute it, for code points below *)
(* U+0800 (one- and two-byte forms); any other byte is a decoding error    *)

encode_char(cp) ==
    IF cp < 128 THEN <<cp>> ELSE <<192 + (cp \div 64), 128 + (cp % 64)>>

\* message.encode('utf-8')
RECURSIVE encode(_)
encode(text) ==
    IF text = <<>> THEN <<>> ELSE encode_char(Head(text)) \o encode(Tail(text))

IsContinuation(b) == b >= 128 /\ b <= 191

\* bytes.decode("utf-8"): [ok, text]; not ok is UnicodeDecodeError
RECURSIVE decode(_)
decode(bytes) ==
    IF bytes = <<>> THEN [ok |-> TRUE, text |-> <<>>]
    ELSE IF bytes[1] < 128
    THEN LET rest == decode(Tail(bytes))
         IN [ok |-> rest.ok, text |-> <<bytes[1]>> \o rest.text]
    ELSE IF bytes[1] >= 194 /\ bytes[1] <= 223 /\ Len(bytes) >= 2
            /\ IsContinuation(bytes[2])
    THEN LET rest == decode(SubSeq(bytes, 3, Len(bytes)))
         IN [ok |-> rest.ok,
             text |-> <<(bytes[1] - 192) * 64 + (bytes[2] - 128)>>
                      \o rest.text]
    ELSE [ok |-> FALSE, text |-> <<>>]

----------------------------------------------------------------------------
(* Clients of the command socket *)

\* "pause" and "é" as code points
Pause == <<112, 97, 117, 115, 101>>
EAcute == <<233>>

\* how TCP may deliver a message: in one piece, or cut after its first byte
Deliveries(bytes) ==
    IF bytes = <<>> THEN { <<>> }
    ELSE IF Len(bytes) = 1 THEN { <<bytes>> }
    ELSE { <<bytes>>, <<<<bytes[1]>>, SubSeq(bytes, 2, Len(bytes))>> }

\* A client: the bytes it sends, as the chunks recv returns them, and how it
\* ends: it closes (client.py), it stalls with the connection open, or the
\* connection is reset.  text is the message of a client that encodes one.
Client(text, chunks, end) == [text |-> text, chunks |-> chunks, end |-> end]

NoText == <<-1>>

Texts == {<<>>, Pause, EAcute}

WellBehaved ==
    UNION { { Client(t, c, "close") : c \in Deliveries(encode(t)) } :
            t \in Texts }

BadClients ==
    { Client(NoText, <<<<255>>>>, "close"),
      Client(NoText, <<>>, "stall"),
      Client(NoText, <<>>, "reset") }

Clients == WellBehaved \cup BadClients

NoConn == [chunks |-> <<>>, end |-> "none"]

----------------------------------------------------------------------------
(* The initial state: main has parsed its arguments; with --bg,            *)
(* background_loop has started the listener thread and set display_data    *)
(* and last_change_time                                                    *)

Init ==
    /\ bg \in BOOLEAN
    /\ args_images \in (IF bg THEN { <<TheDir>> } ELSE ImageArgs)
    /\ change_every \in Intervals
    /\ now = 0
    /\ hw \in XrandrOutputs
    /\ folder \in Folders
    /\ mpc = IF bg THEN "bg" ELSE "start"
    /\ dpc = IF bg THEN "iter" ELSE "off"
    /\ iterations = 0
    /\ display_data = NoLayout
    /\ last_change_time = now
    /\ last_pass = NoPass
    /\ wallfile = NoImage
    /\ applied = NoImage
    /\ command_queue = <<>>
    /\ logged = <<>>
    /\ lpc = IF bg THEN "accept" ELSE "off"
    /\ conn = NoConn
    /\ message_chunks = <<>>
    /\ timed_out = FALSE
    /\ backlog = <<>>
    /\ sent = <<>>

----------------------------------------------------------------------------
(* The environment *)

\* time passes; the clock does not run backwards
Tick ==
    /\ \E d \in TickSteps :
          /\ now + d <= MaxTime
          /\ now' = now + d
    /\ UNCHANGED <<hw, folder>>
    /\ UNCHANGED <<argVars, mpc, daemonVars, command_queue, listenerVars,
                   backlog, sent>>

\* a monitor is plugged, unplugged or rotated
DisplayChange ==
    /\ \E out \in XrandrOutputs \ {hw} : hw' = out
    /\ UNCHANGED <<now, folder>>
    /\ UNCHANGED <<argVars, mpc, daemonVars, command_queue, listenerVars,
                   backlog, sent>>

\* a client connects to the command socket (client.py: sock.connect)
Connect(c) ==
    /\ bg
    /\ Len(sent) + Len(backlog) < MaxClients
    /\ backlog' = Append(backlog, c)
    /\ UNCHANGED <<argVars, envVars, mpc, daemonVars, command_queue,
                   listenerVars, sent>>

\* any client connects
ClientConnects == \E c \in Clients : Connect(c)

\* client.py connects, with the message "pause", delivered in one piece
PauseConnects == Connect(Client(Pause, <<encode(Pause)>>, "close"))

----------------------------------------------------------------------------
(* main, one-shot *)

Main ==
    /\ mpc = "start"
    /\ \E fault \in Faults,
          draw \in Draws(Len(image_files(folder)), Len(hw.monitors)) :
          LET r == main_pass(args_images, folder, hw, fault, draw, wallfile,
                             applied)
          IN /\ last_pass' = PassLog("main", r, r.display_data)
             /\ wallfile' = r.wallfile
             /\ applied' = r.applied
             /\ mpc' = IF r.failedAt = "none" THEN "done" ELSE "failed"
    /\ UNCHANGED <<argVars, envVars, dpc, iterations, display_data,
                   last_change_time, command_queue, logged, listenerVars,
                   backlog, sent>>

----------------------------------------------------------------------------
(* background_loop *)

\* the call of loop_iter and the assignment of its result; an exception it
\* raises is not caught and ends the loop
\* a loop that evaluates loop_iter again without taking a command
next_without_get(failedAt) == IF failedAt = "none" THEN "iter" ELSE "dead"

\* where background_loop goes after loop_iter: to command_queue.get() when it
\* returned, out of the loop when it raised (nothing catches the exception)
after_loop_iter(failedAt) == IF failedAt = "none" THEN "get" ELSE "dead"

LoopIter ==
    /\ dpc = "iter"
    /\ \E fault \in Faults,
          draw \in Draws(Len(image_files(folder)), Len(hw.monitors)) :
          LET r == loop_iter(folder, display_data, change_every,
                             last_change_time, now, hw, fault, draw,
                             wallfile, applied)
          IN /\ last_pass' = PassLog("loop_iter", r, display_data)
             /\ iterations' = iterations + 1
             /\ wallfile' = r.wallfile
             /\ applied' = r.applied
             /\ IF r.failedAt = "none"
                THEN /\ display_data' = r.display_data
                     /\ last_change_time' = r.last_change_time
                ELSE UNCHANGED <<display_data, last_change_time>>
             /\ dpc' = after_loop_iter(r.failedAt)
    /\ UNCHANGED <<argVars, envVars, mpc, command_queue, logged,
                   listenerVars, backlog, sent>>

\* command = command_queue.get(); logging.info(command); time.sleep(poll_rate)
\* Queue.get() returns only when the queue holds an item
GetCommand ==
    /\ dpc = "get"
    /\ command_queue # <<>>
    /\ logged' = Append(logged, Head(command_queue))
    /\ command_queue' = Tail(command_queue)
    /\ dpc' = "iter"
    /\ UNCHANGED <<argVars, envVars, mpc, iterations, display_data,
                   last_change_time, last_pass, wallfile, applied,
                   listenerVars, backlog, sent>>

----------------------------------------------------------------------------
(* command_listener *)

\* sock.accept() times out after 1 s with no connection pending: continue
AcceptTimeout ==
    /\ lpc = "accept"
    /\ backlog = <<>>
    /\ UNCHANGED <<lpc, conn, message_chunks, timed_out>>
    /\ UNCHANGED <<argVars, envVars, mpc, daemonVars, command_queue, backlog,
                   sent>>

\* sock.accept() returns the oldest pending connection; message_chunks = []
Accept ==
    /\ lpc = "accept"
    /\ backlog # <<>>
    /\ conn' = [chunks |-> Head(backlog).chunks, end |-> Head(backlog).end]
    /\ backlog' = Tail(backlog)
    /\ sent' = Append(sent, Head(backlog))
    /\ message_chunks' = <<>>
    /\ lpc' = "recv"
    /\ timed_out' = FALSE
    /\ UNCHANGED <<argVars, envVars, mpc, daemonVars, command_queue>>

\* client_socket.recv(4096) returns data: message_chunks.append(data)
RecvData ==
    /\ lpc = "recv"
    /\ conn.chunks # <<>>
    /\ message_chunks' = Append(message_chunks, Head(conn.chunks))
    /\ conn' = [conn EXCEPT !.chunks = Tail(conn.chunks)]
    /\ timed_out' = FALSE
    /\ UNCHANGED <<lpc>>
    /\ UNCHANGED <<argVars, envVars, mpc, daemonVars, command_queue, backlog,
                   sent>>

\* what the listener does when recv raises socket.timeout: [lpc, conn,
\* message_chunks] after it.  The code says `continue`: it calls recv again.
on_recv_timeout(pc, c, chunks) ==
    [lpc |-> pc, conn |-> c, message_chunks |-> chunks]

\* client_socket.recv(4096) times out after 1 s: the peer sent nothing
RecvTimeout ==
    /\ lpc = "recv"
    /\ conn.chunks = <<>>
    /\ conn.end = "stall"
    /\ LET r == on_recv_timeout(lpc, conn, message_chunks)
       IN /\ lpc' = r.lpc
          /\ conn' = r.conn
          /\ message_chunks' = r.message_chunks
    /\ timed_out' = TRUE
    /\ UNCHANGED <<argVars, envVars, mpc, daemonVars, command_queue, backlog,
                   sent>>

\* only the data of the last recv is decoded
decode_last_chunk(chunks) ==
    decode(IF chunks = <<>> THEN <<>> ELSE chunks[Len(chunks)])

\* b"".join(message_chunks).decode("utf-8"): [ok, text]
decode_message(chunks) == decode(Concat(chunks))

\* a listener that drops the empty command
put_unless_empty(queue, command) ==
    IF command = <<>> THEN queue ELSE Append(queue, command)

\* command_queue.put(command)
put(queue, command) == Append(queue, command)

\* recv returns b"": the peer closed.  The chunks are joined and decoded and
\* the command is put on the queue; a UnicodeDecodeError is not caught and
\* ends the thread.
RecvEof ==
    /\ lpc = "recv"
    /\ conn.chunks = <<>>
    /\ conn.end = "close"
    /\ LET command == decode_message(message_chunks)
       IN IF command.ok
          THEN /\ command_queue' = put(command_queue, command.text)
               /\ lpc' = "accept"
          ELSE /\ UNCHANGED command_queue
               /\ lpc' = "dead"
    /\ timed_out' = FALSE
    /\ conn' = NoConn
    /\ message_chunks' = <<>>
    /\ UNCHANGED <<argVars, envVars, mpc, daemonVars, backlog, sent>>

\* recv raises ConnectionResetError: only socket.timeout is caught, so the
\* exception ends the thread
RecvReset ==
    /\ lpc = "recv"
    /\ conn.chunks = <<>>
    /\ conn.end = "reset"
    /\ lpc' = "dead"
    /\ timed_out' = FALSE
    /\ conn' = NoConn
    /\ message_chunks' = <<>>
    /\ UNCHANGED <<argVars, envVars, mpc, daemonVars, command_queue, backlog,
                   sent>>

----------------------------------------------------------------------------
(* The whole program *)
Next ==
    \/ Tick
    \/ DisplayChange
    \/ ClientConnects
    \/ Main
    \/ LoopIter
    \/ GetCommand
    \/ AcceptTimeout
    \/ Accept
    \/ RecvData
    \/ RecvTimeout
    \/ RecvEof
    \/ RecvReset

Spec == Init /\ [][Next]_vars

(* Rotation: the whole program with every client being client.py sending   *)
(* "pause".  The daemon reads a command only to log it, and a listener     *)
(* that stalls or dies only keeps commands from it, so these are all the   *)
(* behaviours of main and background_loop up to the text of the commands.  *)
NextRotation ==
    \/ Tick
    \/ DisplayChange
    \/ PauseConnects
    \/ Main
    \/ LoopIter
    \/ GetCommand
    \/ AcceptTimeout
    \/ Accept
    \/ RecvData
    \/ RecvEof

SpecRotation == Init /\ [][NextRotation]_vars

(* Channel: the daemon with every kind of client, while the clock and the  *)
(* displays stand still: one monitor, a directory with images.  The        *)
(* listener reads none of them.                                            *)
InitChannel ==
    /\ Init
    /\ bg
    /\ change_every = 480
    /\ hw = [viewport |-> <<1920, 1080>>, monitors |-> <<MonA>>]
    /\ folder = <<Landscape, Notes, Portrait>>

NextChannel ==
    \/ ClientConnects
    \/ LoopIter
    \/ GetCommand
    \/ AcceptTimeout
    \/ Accept
    \/ RecvData
    \/ RecvTimeout
    \/ RecvEof
    \/ RecvReset

SpecChannel == InitChannel /\ [][NextChannel]_vars

(* join_images alone: called once on any layout get_display_data returns   *)
(* and any list of opened images (held in args_images)                     *)
ImageLists ==
    UNION { [1..n -> {Landscape, Portrait}] : n \in 0..MaxImages }

InitJoin ==
    /\ bg = FALSE
    /\ args_images \in ImageLists
    /\ change_every = 480
    /\ now = 0
    /\ hw \in XrandrOutputs
    /\ folder = <<>>
    /\ mpc = "start"
    /\ dpc = "off"
    /\ iterations = 0
    /\ display_data = NoLayout
    /\ last_change_time = now
    /\ last_pass = NoPass
    /\ wallfile = NoImage
    /\ applied = NoImage
    /\ command_queue = <<>>
    /\ logged = <<>>
    /\ lpc = "off"
    /\ conn = NoConn
    /\ message_chunks = <<>>
    /\ timed_out = FALSE
    /\ backlog = <<>>
    /\ sent = <<>>

\* merged = join_images(display_data, images): it returns for every pair of
\* arguments; wallfile holds what it returned
JoinCall ==
    /\ mpc = "start"
    /\ LET got == get_display_data(hw, "none")
           dd == [viewport |-> got.viewport, monitors |-> got.monitors]
       IN wallfile' = join_images(dd, args_images)
    /\ last_pass' = [NoPass EXCEPT !.by = "join_images",
                                   !.paths = args_images]
    /\ mpc' = "done"
    /\ UNCHANGED <<argVars, envVars, dpc, iterations, display_data,
                   last_change_time, applied, command_queue, logged,
                   listenerVars, backlog, sent>>

NextJoin == JoinCall

SpecJoin == InitJoin /\ [][NextJoin]_vars

----------------------------------------------------------------------------
(* Properties *)

\* a step of background_loop that calls loop_iter
LoopIterStep == dpc = "iter" /\ dpc' # "iter"

\* what get_display_data returns now
Fresh == get_display_data(hw, "none")

\* in a LoopIterStep: the fresh monitor count equals the last-seen count
SameCount == Len(Fresh.monitors) = Len(display_data.monitors)

\* in a LoopIterStep: the time since last_change_time, seconds
Elapsed == now - last_change_time

\* the rotation interval, seconds
IntervalSeconds == 60 * change_every

\* C1: the rotation loop never waits on the command queue: whenever
\* background_loop stands at its read of the queue it can go on, whether or
\* not a command is there.
C1_LoopNeverWaitsOnQueue == dpc = "get" => ENABLED GetCommand

\* C2: once a per-connection read has timed out, the connection is dropped
\* with what was read of it and the listener is back at accept.
C2_ReadTimeoutDropsConnection ==
    timed_out => lpc = "accept" /\ conn = NoConn /\ message_chunks = <<>>

\* C3: a failure of a pipeline step in a loop iteration never stops the
\* daemon: after a loop_iter pass that failed, background_loop is still
\* running (at its queue read or at its next iteration).
C3_FailureNeverStopsDaemon ==
    (last_pass.by = "loop_iter" /\ last_pass.failedAt # "none")
        => dpc \in {"iter", "get"}

\* a LoopIterStep whose pass composed and raised nothing
ComposedOk == last_pass'.trigger # "none" /\ last_pass'.failedAt = "none"

\* C4 as stated: last_change_time and the last-seen display_data change only
\* in an iteration whose composition pipeline ran and succeeded.
C4_StateChangesOnlyOnSuccess ==
    [][(last_change_time' # last_change_time \/ display_data' # display_data)
          => (LoopIterStep /\ ComposedOk)]_vars

\* C4 as amended: last_change_time and the monitor count of the last-seen
\* display_data change only in an iteration whose pipeline ran and succeeded;
\* an iteration whose pass raises leaves last_change_time and display_data as
\* they were; an iteration that returns, composing or not, replaces
\* display_data by the fresh layout.
C4_CountAndTimeChangeOnlyOnSuccess ==
    [][/\ (\/ last_change_time' # last_change_time
           \/ Len(display_data'.monitors) # Len(display_data.monitors))
          => (LoopIterStep /\ ComposedOk)
       /\ (LoopIterStep /\ last_pass'.failedAt # "none")
          => UNCHANGED <<last_change_time, display_data>>
       /\ (LoopIterStep /\ last_pass'.failedAt = "none")
          => display_data' = [viewport |-> Fresh.viewport,
                              monitors |-> Fresh.monitors]]_vars

\* an iteration composed on the timer, succeeded and restarted the timer,
\* after one that had found the monitor rotated without composing
C4_Witness ==
    /\ last_pass.by = "loop_iter"
    /\ last_pass.trigger = "timer"
    /\ last_pass.failedAt = "none"
    /\ dpc = "get"
    /\ last_change_time = now
    /\ now > 0

\* C5: loop_iter composes only if the fresh monitor count differs from the
\* last-seen count or the time since last_change_time is at least the
\* rotation interval; otherwise, whatever the monitors' geometry, it does not
\* compose, set_wallpaper is not called and the wallpaper stays.
C5_ComposeOnlyOnTrigger ==
    [][(LoopIterStep /\ SameCount /\ Elapsed < IntervalSeconds)
          => /\ last_pass'.trigger = "none"
             /\ last_pass'.sink = 0
             /\ UNCHANGED <<applied, wallfile>>]_vars

\* a rotated monitor (same count, other geometry) was seen by an iteration
\* that did not compose
C5_Witness ==
    /\ last_pass.by = "loop_iter"
    /\ last_pass.resized
    /\ last_pass.trigger = "none"
    /\ last_pass.failedAt = "none"
    /\ last_pass.sink = 0
    /\ dpc = "get"

\* C6: whatever the interval and the elapsed time, 24 hours and more
\* included, a loop_iter evaluation with unchanged monitor count at which the
\* elapsed time is at least the rotation interval composes.
C6_ElapsedIntervalTriggers ==
    [][(LoopIterStep /\ last_pass'.failedAt # "xrandr" /\ SameCount
            /\ Elapsed >= IntervalSeconds)
          => last_pass'.trigger # "none"]_vars

\* C7: with last_change_time = T0 and the monitor count unchanging, the
\* iterations evaluated before T0 + I do not compose, the first one evaluated
\* at or after T0 + I composes and restarts the timer there (so those that
\* follow before T0 + 2I do not compose again).
C7_ComposesExactlyOncePerInterval ==
    [][(LoopIterStep /\ last_pass'.failedAt # "xrandr" /\ SameCount)
          => IF now >= last_change_time + IntervalSeconds
             THEN /\ last_pass'.trigger = "timer"
                  /\ last_pass'.failedAt = "none" => last_change_time' = now
             ELSE /\ last_pass'.trigger = "none"
                  /\ last_change_time' = last_change_time]_vars

\* C8: in main and in loop_iter, set_wallpaper is called once in a pass in
\* which selection, decoding, join_images and saving succeeded, and not at
\* all in a pass in which one of them failed or that did not compose.
C8_SinkOncePerSuccessfulPass ==
    /\ last_pass.sink \in {0, 1}
    /\ last_pass.sink = 1
       <=> /\ last_pass.trigger # "none"
           /\ last_pass.failedAt \notin
                 {"xrandr", "iterdir", "choices", "NameError", "open", "join",
                  "save"}
    /\ (last_pass.by = "main" /\ mpc = "done") => last_pass.sink = 1

\* a one-shot pass succeeded and called set_wallpaper once
C8_Witness ==
    /\ last_pass.by = "main"
    /\ mpc = "done"
    /\ last_pass.failedAt = "none"
    /\ last_pass.sink = 1
    /\ applied # NoImage

\* every connection accepted so far sent a message and closed
AllWellBehaved == \A i \in 1..Len(sent) : sent[i] \in WellBehaved

\* the connections read to their end
Completed == IF lpc = "recv" THEN Len(sent) - 1 ELSE Len(sent)

\* C9: when every connection sends its bytes and closes, the commands logged
\* by the daemon followed by those still queued are exactly the texts sent,
\* one per connection read to its end, in the order of acceptance.
C9_OneCommandPerConnectionInOrder ==
    AllWellBehaved
        => logged \o command_queue = [i \in 1..Completed |-> sent[i].text]

\* three clients sent, the first in two pieces; one command is logged and
\* others wait
C9_Witness ==
    /\ AllWellBehaved
    /\ Len(sent) = 3
    /\ Len(sent[1].chunks) = 2
    /\ sent[1].text # sent[2].text
    /\ Len(logged) >= 1
    /\ Len(command_queue) >= 1

\* C10: an error on one connection (bytes that are not UTF-8, a reset) does
\* not end the listener thread.
C10_ListenerSurvivesConnectionErrors == lpc # "dead"

\* C11: join_images fails with a MonitorImageCountMismatch error and
\* produces no merged wallpaper whenever the number of images differs from
\* the number of monitors, more or fewer.
C11_JoinRejectsCountMismatch ==
    (last_pass.by = "join_images" /\ Len(args_images) # Len(hw.monitors))
        => /\ last_pass.failedAt = "MonitorImageCountMismatch"
           /\ wallfile = NoImage

\* the step of a one-shot run: main from get_display_data to its end
MainStep == mpc = "start" /\ mpc' # "start"

\* explicit image paths on the command line, not a single directory
ExplicitPaths == ~(Len(args_images) = 1 /\ args_images[1].is_dir)

\* C12: a one-shot run with explicit paths whose count differs from the
\* monitor count ends with the path-count-mismatch failure, before an image
\* is opened and without a call of set_wallpaper; with equal counts there is
\* no such failure.
C12_PathCountMismatchExits ==
    [][(MainStep /\ ExplicitPaths /\ last_pass'.failedAt # "xrandr")
          => IF Len(args_images) # Len(Fresh.monitors)
             THEN /\ mpc' = "failed"
                  /\ last_pass'.failedAt = "PathCountMismatch"
                  /\ last_pass'.sink = 0
                  /\ UNCHANGED <<applied, wallfile>>
             ELSE last_pass'.failedAt \notin {"PathCountMismatch", "NameError"}
       ]_vars

\* a pass that came to its selection from the directory: loop_iter with
\* do_change, or main given the directory
SelectionStep ==
    /\ LoopIterStep \/ (MainStep /\ ~ExplicitPaths)
    /\ last_pass'.trigger # "none"
    /\ last_pass'.failedAt \notin {"xrandr", "iterdir"}

\* the files of the directory with a recognized extension
Recognized == {image_files(folder)[i] : i \in 1..Len(image_files(folder))}

\* C13: when the directory holds a recognized image file, the selection does
\* not fail and returns exactly as many paths as there are monitors, each a
\* recognized file of the directory, also when the monitors outnumber the
\* files.
C13_SelectionDrawsOnePerMonitor ==
    [][(SelectionStep /\ Recognized # {})
          => /\ last_pass'.failedAt # "choices"
             /\ Len(last_pass'.paths) = Len(Fresh.monitors)
             /\ \A i \in 1..Len(last_pass'.paths) :
                   /\ last_pass'.paths[i] \in Recognized
                   /\ last_pass'.paths[i].suffix \in IMAGE_EXT]_vars

\* two monitors were given the one image of the directory, by loop_iter
C13_Witness ==
    /\ Cardinality(Recognized) = 1
    /\ last_pass.by = "loop_iter"
    /\ last_pass.failedAt = "none"
    /\ Len(last_pass.paths) = 2
    /\ last_pass.paths[1] = last_pass.paths[2]
    /\ Len(applied.pastes) = 2

\* C14: when the directory holds no recognized image file, the selection
\* fails and no wallpaper is composed or applied, whatever the number of
\* monitors, zero included.
C14_EmptySelectionFails ==
    [][(SelectionStep /\ Recognized = {})
          => /\ last_pass'.failedAt = "choices"
             /\ last_pass'.sink = 0
             /\ UNCHANGED <<wallfile, applied>>]_vars

\* a directory pass that composed and saved the wallpaper
ComposeStep ==
    /\ SelectionStep
    /\ last_pass'.failedAt \in {"none", "gsettings"}

\* the number of positions of sequence seq that hold x
Count(seq, x) == Cardinality({i \in 1..Len(seq) : seq[i] = x})

\* C15: the composition gives every monitor one of the drawn images, in such
\* a way that both the monitors and the images pasted on them are in
\* ascending order of width/height: the monitor of the i-th smallest ratio
\* has the image of the i-th smallest ratio.  With monitors 1920x1080 at
\* (0,0) and 1080x1080 at (1920,0) and the images 1600x900 and 900x1600
\* drawn, the 900x1600 image is at (1920,0) and the 1600x900 image at (0,0).
C15_RatioOrderPairsImagesWithMonitors ==
    [][ComposeStep =>
          LET pastes == wallfile'.pastes
              paths == last_pass'.paths
              pasted == [i \in 1..Len(pastes) |-> pastes[i].image]
              targets == [i \in 1..Len(pastes) |->
                             <<pastes[i].width, pastes[i].height, pastes[i].at>>]
              monitors == [i \in 1..Len(hw.monitors) |->
                              <<hw.monitors[i].x, hw.monitors[i].y,
                                <<hw.monitors[i].x_offset,
                                  hw.monitors[i].y_offset>> >>]
          IN /\ Len(pastes) = Len(hw.monitors)
             /\ \A f \in {Landscape, Portrait} :
                   Count(pasted, f) = Count(paths, f)
             /\ \A i \in 1..Len(monitors) :
                   Count(targets, monitors[i]) = Count(monitors, monitors[i])
             /\ \A i, j \in 1..Len(pastes) :
                   i < j =>
                      /\ ~RatioLess(<<pastes[j].width, pastes[j].height>>,
                                    <<pastes[i].width, pastes[i].height>>)
                      /\ ~RatioLess(<<pasted[j].width, pasted[j].height>>,
                                    <<pasted[i].width, pasted[i].height>>)
             /\ (hw.monitors = <<MonA, MonB>> /\ Count(paths, Landscape) = 1
                    /\ Count(paths, Portrait) = 1)
                   => \A i \in 1..Len(pastes) :
                         /\ pasted[i] = Portrait => pastes[i].at = <<1920, 0>>
                         /\ pasted[i] = Landscape => pastes[i].at = <<0, 0>>
       ]_vars

\* the 1600x900 image was drawn first and the 900x1600 image second, and the
\* desktop shows the second on the square monitor and the first on the wide
C15_Witness ==
    /\ last_pass.by = "loop_iter"
    /\ last_pass.failedAt = "none"
    /\ last_pass.paths = <<Landscape, Portrait>>
    /\ Len(applied.pastes) = 2
    /\ applied.pastes[1].image = Portrait
    /\ applied.pastes[1].at = <<1920, 0>>
    /\ applied.pastes[2].image = Landscape
    /\ applied.pastes[2].at = <<0, 0>>

\* C16: the daemon takes exactly one command from the queue after each
\* evaluation of loop_iter and before the next: about to evaluate loop_iter
\* it has taken as many commands as it made evaluations, past loop_iter one
\* fewer; and the commands taken and queued never outnumber the connections
\* the listener read to their end.
C16_OneCommandPerIteration ==
    /\ dpc = "iter" => iterations = Len(logged)
    /\ dpc \in {"get", "dead"} => iterations = Len(logged) + 1
    /\ iterations <= Len(logged) + 1
    /\ Len(logged) + Len(command_queue) <= Completed

\* the third evaluation of loop_iter is over, two commands were taken and
\* the daemon waits for the third
C16_Witness ==
    /\ iterations = 3
    /\ Len(logged) = 2
    /\ dpc = "get"
    /\ command_queue = <<>>

\* the evaluation of loop_iter before this one composed for a change of the
\* monitor count
AfterConfigCompose ==
    /\ last_pass.by = "loop_iter"
    /\ last_pass.trigger = "config"
    /\ last_pass.failedAt = "none"

\* C17: a composition triggered by a change of the monitor count leaves
\* last_change_time as it was, and when the rotation interval has elapsed at
\* the evaluation of loop_iter that follows such a composition, that
\* evaluation composes again.
C17_ConfigComposeKeepsTimer ==
    [][LoopIterStep
          => /\ last_pass'.trigger = "config"
                => last_change_time' = last_change_time
             /\ (AfterConfigCompose /\ last_pass'.failedAt # "xrandr"
                    /\ Elapsed >= IntervalSeconds)
                => last_pass'.trigger # "none"]_vars

\* C18: the first evaluation of loop_iter by the daemon composes whenever
\* xrandr reports one monitor or more, whatever the interval and the time
\* elapsed, and does not compose when xrandr reports no monitor and the
\* interval has not elapsed.
C18_FirstIterationComposesIffMonitors ==
    [][(LoopIterStep /\ iterations = 0 /\ last_pass'.failedAt # "xrandr")
          => /\ Len(Fresh.monitors) >= 1 => last_pass'.trigger = "config"
             /\ (Len(Fresh.monitors) = 0 /\ Elapsed < IntervalSeconds)
                   => last_pass'.trigger = "none"]_vars

\* the first evaluation, made before any time has passed, composed and
\* applied a wallpaper
C18_Witness ==
    /\ iterations = 1
    /\ now = 0
    /\ last_pass.by = "loop_iter"
    /\ last_pass.trigger = "config"
    /\ last_pass.sink = 1
    /\ Len(applied.pastes) >= 1

\* a client that connects and closes without sending a byte
SilentClient == Client(<<>>, <<>>, "close")

\* the connection being read has closed and no byte was received on it
SilentEofStep ==
    /\ lpc = "recv"
    /\ lpc' # "recv"
    /\ conn.end = "close"
    /\ conn.chunks = <<>>
    /\ message_chunks = <<>>

\* the daemon takes a command from the queue
GetStep == dpc = "get" /\ dpc' # "get"

\* C19: a connection closed without a byte puts exactly one command, the
\* empty string, on the queue and the listener goes on to accept; the daemon
\* can take a queued command whenever it waits for one, and taking the empty
\* command it logs it and goes on to its next iteration.  At all times the
\* empty commands taken or queued are as many as the silent connections read
\* to their end.
C19_SilentClientAdvancesDaemon ==
    [][/\ SilentEofStep
          => /\ command_queue' = Append(command_queue, <<>>)
             /\ lpc' = "accept"
       /\ (dpc = "get" /\ command_queue # <<>>) => ENABLED GetCommand
       /\ (GetStep /\ Head(command_queue) = <<>>)
          => /\ logged' = Append(logged, <<>>)
             /\ command_queue' = Tail(command_queue)
             /\ dpc' = "iter"
       /\ Count(logged' \o command_queue', <<>>)
             = Count(SubSeq(sent', 1, Completed'), SilentClient)
      ]_vars

\* the first client sent nothing; the daemon took its empty command and made
\* its second evaluation of loop_iter
C19_Witness ==
    /\ Len(sent) >= 1
    /\ sent[1] = SilentClient
    /\ logged = << <<>> >>
    /\ iterations = 2

====
